---- MODULE Spec2Model ----
(***************************************************************************)
(* FerretDB: the collection catalog of the PostgreSQL backend              *)
(* (internal/handlers/pg/pgdb/collections.go), the delete command of the   *)
(* Tigris handler (Handler.MsgDelete) and the cursor of QueryDocuments     *)
(* (TestQueryDocuments).                                                   *)
(*                                                                         *)
(* Catalog part.  One database (schema).  Every SQL statement a function   *)
(* sends through the querier is one atomic step: the callers pass the      *)
(* connection pool (collections.go:185), so each statement commits on its  *)
(* own and the statements of concurrent calls interleave.                  *)
(***************************************************************************)
EXTENDS Integers, Sequences, FiniteSets, TLC

VARIABLES
    schema,     \* the PostgreSQL schema of the database exists
    settings,   \* settings.collections: sequence of [k |-> collection, v |-> table], insertion order
    tables,     \* tables of the schema, reserved ones excluded
    pc,         \* per connection: position in the running call ("idle" between calls)
    op,         \* per connection: the running (or last) call
    arg,        \* per connection: its collection argument
    loc,        \* per connection: the settings document held in memory (collections.go:119-136)
    ret,        \* per connection: result of the last completed call
    pre,        \* per connection: the database as it was when the call began
    overlap,    \* the running (or last) calls of the two connections overlap in time
    coll,       \* delete command: _id values of the documents stored in the collection
    cmd,        \* per handler: the command document of the running (or last) delete command
    hpc,        \* per handler: position in MsgDelete
    idx,        \* per handler: loop variable i of MsgDelete (0-based)
    fetched,    \* per handler: fetchedDocs of the statement being processed
    delErrors,  \* per handler: the WriteErrors collected so far
    deleted,    \* per handler: the counter "deleted"
    reply,      \* per handler: the reply document
    requests,   \* per handler: the indexes i whose processQuery sent a delete request to the backend
    attempted,  \* per handler: the processQuery calls that returned, in order: the index i, whether
                \* an error was returned, the _ids taken out of the collection
    rows,       \* cursor: the documents of the table, in the backend's row order
    tableExists,\* cursor: the collection's table exists
    ctxDone,    \* cursor: the caller's context is cancelled
    tx,         \* cursor: the enclosing transaction: "open", "aborted", "committed", "rolledback"
    txErr,      \* cursor: what Commit or Rollback returned
    qErr,       \* cursor: the error QueryDocuments returned
    ppc,        \* cursor: position of the producer: "none", "pull", "send", "done"
    pulled,     \* cursor: number of rows the producer has read from the backend
    slice,      \* cursor: the batch the producer has filled and not yet sent
    fetchedChan,\* cursor: the channel between producer and consumer, a sequence of batches
    chanClosed, \* cursor: the producer has closed the channel
    itErr,      \* cursor: the error latched by the producer
    ipc,        \* cursor: position of the consumer: "new", "drain", "end", "txdone", "closed"
    batch,      \* cursor: the batch the last Next() made current
    batches,    \* cursor: the batches Next() has handed to the consumer, in order
    iter,       \* cursor: number of Next() calls that returned true
    cancelIter  \* cursor: value of iter when the context was cancelled, -1 if it was not

catalogVars == <<schema, settings, tables, pc, op, arg, loc, ret, pre, overlap>>

deleteVars == <<coll, cmd, hpc, idx, fetched, delErrors, deleted, reply, attempted, requests>>

cursorVars == <<rows, tableExists, ctxDone, tx, txErr, qErr, ppc, pulled, slice,
                fetchedChan, chanClosed, itErr, ipc, batch, batches, iter, cancelIter>>

vars == <<schema, settings, tables, pc, op, arg, loc, ret, pre, overlap,
          coll, cmd, hpc, idx, fetched, delErrors, deleted, reply, attempted, requests,
          rows, tableExists, ctxDone, tx, txErr, qErr, ppc, pulled, slice,
          fetchedChan, chanClosed, itErr, ipc, batch, batches, iter, cancelIter>>

-----------------------------------------------------------------------------
(* Names: sequences of one-character strings.                              *)

LowerLetters == {"a", "b", "d", "e", "f", "r", "t", "u"}
UpperLetters == {"B"}
Digits == {"1"}

\* Code points of the characters the model uses.
Ord(ch) ==
    CASE ch = "-" -> 45
      [] ch = "1" -> 49
      [] ch = "B" -> 66
      [] ch = "_" -> 95
      [] ch = "a" -> 97
      [] ch = "b" -> 98
      [] ch = "d" -> 100
      [] ch = "e" -> 101
      [] ch = "f" -> 102
      [] ch = "r" -> 114
      [] ch = "t" -> 116
      [] ch = "u" -> 117

Rep(ch, n) == [i \in 1..n |-> ch]

HasPrefix(s, p) == Len(s) >= Len(p) /\ SubSeq(s, 1, Len(p)) = p

\* settings.go: reservedPrefix = "_ferretdb_"
reservedPrefix == <<"_", "f", "e", "r", "r", "e", "t", "d", "b", "_">>

\* collections.go:36: ^[a-zA-Z_][a-zA-Z0-9_]{0,119}$
MaxTail == 119

validateCollectionNameRe(s) ==
    /\ Len(s) >= 1
    /\ s[1] \in LowerLetters \cup UpperLetters \cup {"_"}
    /\ Len(s) - 1 <= MaxTail
    /\ \A i \in 2..Len(s) : s[i] \in LowerLetters \cup UpperLetters \cup Digits \cup {"_"}

\* collections.go:96-99: the name check of CreateCollection.
NoPrefixCheckName(collection) == validateCollectionNameRe(collection)

ValidCollectionName(collection) ==
    validateCollectionNameRe(collection) /\ ~HasPrefix(collection, reservedPrefix)

\* Table name of a collection: the name cut to the identifier length, an
\* underscore and a checksum of the whole name.
maxTableNameLength == 63
HashDigits == 8

HexDigit == <<"0", "1", "2", "3", "4", "5", "6", "7", "8", "9", "a", "b", "c", "d", "e", "f">>

Alphabet == LowerLetters \cup UpperLetters \cup Digits \cup {"_", "-"}

Count(s, ch) == Cardinality({i \in 1..Len(s) : s[i] = ch})

RECURSIVE SumOver(_, _)
SumOver(chars, s) ==
    IF chars = {} THEN 0
    ELSE LET ch == CHOOSE x \in chars : TRUE
         IN  Ord(ch) * Count(s, ch) + SumOver(chars \ {ch}, s)

SumOrd(s) == SumOver(Alphabet, s)

Checksum(s) ==
    LET h == (SumOrd(s) * 31 + Len(s)) % 256
    IN  <<HexDigit[(h \div 16) + 1], HexDigit[(h % 16) + 1]>>

formatCollectionName(name) ==
    LET room == maxTableNameLength - HashDigits - 1
        cut  == IF Len(name) > room THEN room ELSE Len(name)
    IN  SubSeq(name, 1, cut) \o <<"_">> \o Checksum(name)

NameU == <<"u">>
NameT == <<"t">>

\* Collection arguments of the concurrent specification.
Names == {NameU, NameT}

\* Collection arguments of the sequential specification.
SeqNames ==
    {NameU, NameT, <<"B", "1">>, Rep("a", MaxTail + 1),
     <<>>, <<"1", "b">>, <<"a", "-">>, reservedPrefix \o <<"u">>, Rep("a", MaxTail + 2)}

\* The table names of the arguments, computed once.
TableOf == [c \in Names \cup SeqNames |-> formatCollectionName(c)]

\* collections.go:110, 211: table := formatCollectionName(collection)
Table(c) == TableOf[c]

-----------------------------------------------------------------------------
(* The settings document's "collections" field: an ordered document.       *)

Has(doc, k) == \E i \in 1..Len(doc) : doc[i].k = k

Set(doc, k, v) ==
    IF Has(doc, k)
    THEN [i \in 1..Len(doc) |-> IF doc[i].k = k THEN [k |-> k, v |-> v] ELSE doc[i]]
    ELSE Append(doc, [k |-> k, v |-> v])

Remove(doc, k) == SelectSeq(doc, LAMBDA e : e.k # k)

Keys(doc) == [i \in 1..Len(doc) |-> doc[i].k]

Contains(s, x) == \E i \in 1..Len(s) : s[i] = x

\* Byte-wise string order, as slices.Sort orders Go strings.
StrLess(a, b) ==
    LET n    == IF Len(a) < Len(b) THEN Len(a) ELSE Len(b)
        diff == {i \in 1..n : a[i] # b[i]}
    IN  IF diff = {} THEN Len(a) < Len(b)
        ELSE LET i == CHOOSE j \in diff : \A k \in diff : j <= k
             IN  Ord(a[i]) < Ord(b[i])

RECURSIVE Insert(_, _)
Insert(x, s) ==
    IF s = <<>> THEN <<x>>
    ELSE IF StrLess(Head(s), x) THEN <<Head(s)>> \o Insert(x, Tail(s))
    ELSE <<x>> \o s

RECURSIVE Sort(_)
Sort(s) == IF s = <<>> THEN <<>> ELSE Insert(Head(s), Sort(Tail(s)))

CollectionNamesUnsorted(doc) == Keys(doc)

\* collections.go:60-71: the names Collections returns for a settings document.
CollectionNames(doc) == Sort(Keys(doc))

-----------------------------------------------------------------------------
(* Connections and their calls.                                            *)

Conns == {"c1", "c2"}

Ops == {"CreateCollection", "CreateCollectionIfNotExist", "DropCollection", "Collections"}

NoRet == [err |-> "none", created |-> FALSE, names |-> <<>>, seen |-> {}]

Result(e) == [NoRet EXCEPT !.err = e]

Database == [schema |-> schema, settings |-> settings, tables |-> tables]

\* What the database holds of collection c: its settings entry and its table.
About(c) ==
    [schema |-> schema,
     settings |-> SelectSeq(settings, LAMBDA e : e.k = c),
     tables |-> tables \cap {Table(c)}]

\* The call of connection p is over: its result is r.
Finish(p, r) ==
    /\ pc' = [pc EXCEPT ![p] = "idle"]
    /\ ret' = [ret EXCEPT ![p] = r]
    /\ loc' = [loc EXCEPT ![p] = <<>>]

Goto(p, l) ==
    /\ pc' = [pc EXCEPT ![p] = l]
    /\ UNCHANGED <<ret, loc>>

NeverCreatedResult(err) ==
    IF err \in {"nil", "ErrAlreadyExist"} THEN [NoRet EXCEPT !.err = "nil", !.created = FALSE]
    ELSE Result(err)

\* collections.go:186-194: what CreateCollectionIfNotExist makes of CreateCollection's error.

CreateCollectionIfNotExistResult(err) ==
    IF err = "nil" THEN [NoRet EXCEPT !.err = "nil", !.created = TRUE]
    ELSE IF err = "ErrAlreadyExist" THEN [NoRet EXCEPT !.err = "nil", !.created = FALSE]
    ELSE Result(err)

\* CreateCollection returns err, to its caller: the connection, or CreateCollectionIfNotExist.
CreateCollectionReturn(p, err) ==
    IF op[p] = "CreateCollection"
    THEN Finish(p, Result(err))
    ELSE Finish(p, CreateCollectionIfNotExistResult(err))

-----------------------------------------------------------------------------
(* The delete command: documents, filters, command documents.              *)

\* The connections that run a delete command.
Handlers == {"h1", "h2"}

\* Documents of the collection, named by their _id.
NumDocs == 2

Ids == 1..NumDocs

\* Longest deletes array.
MaxDeletes == 3

\* common.FilterDocument on the filters the model uses: {} matches every document,
\* {_id: 1} one, {_id: "nope"} none; a filter with an unknown operator is an error.
Filters == {"all", "id1", "none", "bad"}

FilterFails(q) == q = "bad"

Matches(id, q) ==
    CASE q = "all" -> TRUE
      [] q = "id1" -> id = 1
      [] OTHER -> FALSE

\* A statement of the deletes array: doc (it is a document), strict (it holds
\* collation or hint), q ("nodoc": q is no document), whole (limit is a whole
\* number), limit.
Stmt(q, l) == [doc |-> TRUE, strict |-> FALSE, q |-> q, whole |-> TRUE, limit |-> l]

Statements ==
    {Stmt("all", 0), Stmt("id1", 1), Stmt("all", -1), Stmt("none", 1), Stmt("bad", 0),
     Stmt("nodoc", 0),
     [Stmt("all", 0) EXCEPT !.doc = FALSE],
     [Stmt("all", 0) EXCEPT !.strict = TRUE],
     [Stmt("all", 0) EXCEPT !.whole = FALSE]}

RECURSIVE Arrays(_)
Arrays(n) ==
    IF n = 0 THEN {<<>>}
    ELSE Arrays(n - 1) \cup {Append(a, st) : a \in {b \in Arrays(n - 1) : Len(b) = n - 1}, st \in Statements}

\* The command document: let (present), ordered ("absent", "true", "false"),
\* target ("ok"; "nodb": no $db; "badcoll": the collection is no string), deletes.
Cmd(l, o, t, d) == [let |-> l, ordered |-> o, target |-> t, deletes |-> d]

NoCmd == Cmd(FALSE, "absent", "ok", <<>>)

DeleteArrays == Arrays(MaxDeletes)

Commands ==
    {Cmd(FALSE, o, "ok", d) : o \in {"absent", "true", "false"}, d \in DeleteArrays}
    \cup {Cmd(l, "false", t, <<st>>) : l \in BOOLEAN, t \in {"ok", "nodb", "badcoll"}, st \in Statements}

NoReply == [err |-> "none", doc |-> <<>>]

\* The ascending sequence of the elements of a set of numbers.
RECURSIVE Ascending(_)
Ascending(S) ==
    IF S = {} THEN <<>>
    ELSE LET m == CHOOSE x \in S : \A y \in S : x <= y
         IN  <<m>> \o Ascending(S \ {m})

Range(s) == {s[i] : i \in 1..Len(s)}

-----------------------------------------------------------------------------
(* The calls, one action per statement sent to PostgreSQL.                 *)

FirstStep(o) ==
    CASE o = "CreateCollection" -> "cc_schema"
      [] o = "CreateCollectionIfNotExist" -> "ce_schema"
      [] o = "DropCollection" -> "dc_schema"
      [] o = "Collections" -> "co_schema"

\* A connection calls o(ctx, pool, db, c).  pre keeps the database of that moment:
\* all of it (whole), or what it holds of c.
Begin(p, o, c, whole) ==
    /\ pc[p] = "idle"
    /\ op' = [op EXCEPT ![p] = o]
    /\ arg' = [arg EXCEPT ![p] = IF o = "Collections" THEN <<>> ELSE c]
    /\ pre' = [pre EXCEPT ![p] = IF whole THEN Database ELSE About(c)]
    /\ pc' = [pc EXCEPT ![p] = FirstStep(o)]
    /\ ret' = [ret EXCEPT ![p] = NoRet]
    /\ overlap' = \E q \in Conns \ {p} : pc[q] # "idle"
    /\ UNCHANGED <<schema, settings, tables, loc, deleteVars, cursorVars>>

\* Collections, collections.go:46-53: schemaExists.
CollectionsSchema(p) ==
    /\ pc[p] = "co_schema"
    /\ IF ~schema THEN Finish(p, Result("ErrSchemaNotExist")) ELSE Goto(p, "co_settings")
    /\ UNCHANGED <<schema, settings, tables, op, arg, pre, overlap, deleteVars, cursorVars>>

\* Collections, collections.go:55-71: getSettingsTable, then the sorted keys.
\* seen: the tables the schema holds at the instant the settings row is read.
CollectionsSettings(p) ==
    /\ pc[p] = "co_settings"
    /\ Finish(p, [NoRet EXCEPT !.err = "nil", !.names = CollectionNames(settings), !.seen = tables])
    /\ UNCHANGED <<schema, settings, tables, op, arg, pre, overlap, deleteVars, cursorVars>>

\* CreateCollectionIfNotExist, collections.go:169 -> CollectionExists:76-82 -> Collections:46-53.
ExistsSchema(p) ==
    /\ pc[p] = "ce_schema"
    /\ IF ~schema THEN Goto(p, "ce_createdb") ELSE Goto(p, "ce_settings")
    /\ UNCHANGED <<schema, settings, tables, op, arg, pre, overlap, deleteVars, cursorVars>>

\* CreateCollectionIfNotExist, collections.go:169-176 -> CollectionExists:84 -> Collections:55-71.
ExistsSettings(p) ==
    /\ pc[p] = "ce_settings"
    /\ IF Contains(CollectionNames(settings), arg[p])
       THEN Finish(p, [NoRet EXCEPT !.err = "nil", !.created = FALSE])
       ELSE Goto(p, "ce_createdb")
    /\ UNCHANGED <<schema, settings, tables, op, arg, pre, overlap, deleteVars, cursorVars>>

\* CreateDatabase: creates the schema with an empty settings document, or fails
\* with ErrAlreadyExist, which collections.go:181 lets pass.
CreateDatabase(p) ==
    /\ pc[p] = "ce_createdb"
    /\ IF schema
       THEN UNCHANGED <<schema, settings>>
       ELSE schema' = TRUE /\ settings' = <<>>
    /\ Goto(p, "cc_schema")
    /\ UNCHANGED <<tables, op, arg, pre, overlap, deleteVars, cursorVars>>

\* CreateCollection, collections.go:96-108: the name check, then schemaExists.
CreateCollectionSchema(p) ==
    /\ pc[p] = "cc_schema"
    /\ IF ~ValidCollectionName(arg[p]) THEN CreateCollectionReturn(p, "ErrInvalidTableName")
       ELSE IF ~schema THEN CreateCollectionReturn(p, "ErrSchemaNotExist")
       ELSE Goto(p, "cc_tables")
    /\ UNCHANGED <<schema, settings, tables, op, arg, pre, overlap, deleteVars, cursorVars>>

CreateCollectionTablesUnchecked(p) ==
    /\ pc[p] = "cc_tables"
    /\ Goto(p, "cc_settings")
    /\ UNCHANGED <<schema, settings, tables, op, arg, pre, overlap, deleteVars, cursorVars>>

\* CreateCollection, collections.go:110-117: the tables of the schema.
CreateCollectionTables(p) ==
    /\ pc[p] = "cc_tables"
    /\ IF Table(arg[p]) \in tables
       THEN CreateCollectionReturn(p, "ErrAlreadyExist")
       ELSE Goto(p, "cc_settings")
    /\ UNCHANGED <<schema, settings, tables, op, arg, pre, overlap, deleteVars, cursorVars>>

\* CreateCollection, collections.go:119-136: getSettingsTable; the entry is set in
\* the document held in memory.
CreateCollectionSettings(p) ==
    /\ pc[p] = "cc_settings"
    /\ IF Has(settings, arg[p])
       THEN CreateCollectionReturn(p, "nil")
       ELSE /\ pc' = [pc EXCEPT ![p] = "cc_update"]
            /\ loc' = [loc EXCEPT ![p] = Set(settings, arg[p], Table(arg[p]))]
            /\ UNCHANGED ret
    /\ UNCHANGED <<schema, settings, tables, op, arg, pre, overlap, deleteVars, cursorVars>>

\* CreateCollection, collections.go:138-141: updateSettingsTable writes the whole document.
CreateCollectionUpdate(p) ==
    /\ pc[p] = "cc_update"
    /\ settings' = loc[p]
    /\ Goto(p, "cc_table")
    /\ UNCHANGED <<schema, tables, op, arg, pre, overlap, deleteVars, cursorVars>>

\* CreateCollection, collections.go:143-160: CREATE TABLE IF NOT EXISTS.  On a table
\* that a concurrent connection has just created PostgreSQL answers either with a
\* notice (no error) or with a duplicate error (collections.go:154-157).
CreateCollectionTable(p) ==
    /\ pc[p] = "cc_table"
    /\ LET table == Table(arg[p]) IN
       IF table \in tables
       THEN /\ \E e \in {"nil", "ErrAlreadyExist"} : CreateCollectionReturn(p, e)
            /\ UNCHANGED tables
       ELSE /\ tables' = tables \cup {table}
            /\ CreateCollectionReturn(p, "nil")
    /\ UNCHANGED <<schema, settings, op, arg, pre, overlap, deleteVars, cursorVars>>

DropCollectionSchemaUnchecked(p) ==
    /\ pc[p] = "dc_schema"
    /\ Goto(p, "dc_tables")
    /\ UNCHANGED <<schema, settings, tables, op, arg, pre, overlap, deleteVars, cursorVars>>

\* DropCollection, collections.go:202-209: schemaExists.
DropCollectionSchema(p) ==
    /\ pc[p] = "dc_schema"
    /\ IF ~schema THEN Finish(p, Result("ErrSchemaNotExist")) ELSE Goto(p, "dc_tables")
    /\ UNCHANGED <<schema, settings, tables, op, arg, pre, overlap, deleteVars, cursorVars>>

\* DropCollection, collections.go:211-218: the tables of the schema.
DropCollectionTables(p) ==
    /\ pc[p] = "dc_tables"
    /\ IF Table(arg[p]) \notin tables
       THEN Finish(p, Result("ErrTableNotExist"))
       ELSE Goto(p, "dc_settings")
    /\ UNCHANGED <<schema, settings, tables, op, arg, pre, overlap, deleteVars, cursorVars>>

DropCollectionTableFirst(p) ==
    /\ pc[p] = "dc_settings"
    /\ IF ~Has(settings, arg[p])
       THEN Finish(p, Result("ErrTableNotExist")) /\ UNCHANGED tables
       ELSE tables' = tables \ {Table(arg[p])} /\ Goto(p, "dc_table")
    /\ UNCHANGED <<schema, settings, op, arg, pre, overlap, deleteVars, cursorVars>>

\* DropCollection, collections.go:220-226: removeTableFromSettings.
DropCollectionSettings(p) ==
    /\ pc[p] = "dc_settings"
    /\ IF ~Has(settings, arg[p])
       THEN Finish(p, Result("ErrTableNotExist")) /\ UNCHANGED settings
       ELSE settings' = Remove(settings, arg[p]) /\ Goto(p, "dc_table")
    /\ UNCHANGED <<schema, tables, op, arg, pre, overlap, deleteVars, cursorVars>>

\* DropCollection, collections.go:229-235: DROP TABLE IF EXISTS.
DropCollectionTable(p) ==
    /\ pc[p] = "dc_table"
    /\ tables' = tables \ {Table(arg[p])}
    /\ Finish(p, Result("nil"))
    /\ UNCHANGED <<schema, settings, op, arg, pre, overlap, deleteVars, cursorVars>>

\* One step of connection p, its collection arguments drawn from N.
Step(p, N, whole) ==
    \/ \E o \in Ops, c \in N : Begin(p, o, c, whole)
    \/ CollectionsSchema(p)
    \/ CollectionsSettings(p)
    \/ ExistsSchema(p)
    \/ ExistsSettings(p)
    \/ CreateDatabase(p)
    \/ CreateCollectionSchema(p)
    \/ CreateCollectionTables(p)
    \/ CreateCollectionSettings(p)
    \/ CreateCollectionUpdate(p)
    \/ CreateCollectionTable(p)
    \/ DropCollectionSchema(p)
    \/ DropCollectionTables(p)
    \/ DropCollectionSettings(p)
    \/ DropCollectionTable(p)

NoDatabase == [schema |-> FALSE, settings |-> <<>>, tables |-> {}]

\* No database exists, no call is running.
InitCatalog ==
    /\ schema = FALSE
    /\ settings = <<>>
    /\ tables = {}
    /\ pc = [p \in Conns |-> "idle"]
    /\ op = [p \in Conns |-> "none"]
    /\ arg = [p \in Conns |-> <<>>]
    /\ loc = [p \in Conns |-> <<>>]
    /\ ret = [p \in Conns |-> NoRet]
    /\ pre = [p \in Conns |-> NoDatabase]
    /\ overlap = FALSE

\* No delete command is running.
HandlersIdle ==
    /\ cmd = [h \in Handlers |-> NoCmd]
    /\ hpc = [h \in Handlers |-> "idle"]
    /\ idx = [h \in Handlers |-> 0]
    /\ fetched = [h \in Handlers |-> <<>>]
    /\ delErrors = [h \in Handlers |-> <<>>]
    /\ deleted = [h \in Handlers |-> 0]
    /\ reply = [h \in Handlers |-> NoReply]
    /\ attempted = [h \in Handlers |-> <<>>]
    /\ requests = [h \in Handlers |-> <<>>]

\* No cursor is open; the table of the cursor part holds no rows.
NoCursor ==
    /\ ctxDone = FALSE
    /\ tx = "open"
    /\ txErr = "none"
    /\ qErr = "none"
    /\ ppc = "none"
    /\ pulled = 0
    /\ slice = <<>>
    /\ fetchedChan = <<>>
    /\ chanClosed = FALSE
    /\ itErr = "nil"
    /\ ipc = "new"
    /\ batch = <<>>
    /\ batches = <<>>
    /\ iter = 0
    /\ cancelIter = -1

CursorIdle == NoCursor /\ rows = <<>> /\ tableExists = FALSE

Init == InitCatalog /\ HandlersIdle /\ coll = {} /\ CursorIdle

\* Two connections, their statements interleaved.
Next == \E p \in Conns : Step(p, Names, FALSE)

Spec == Init /\ [][Next]_vars

\* One connection: no call runs beside another.
NextSeq == Step("c1", SeqNames, TRUE)

SpecSeq == Init /\ [][NextSeq]_vars

-----------------------------------------------------------------------------
(* Handler.MsgDelete, one action per request sent to the backend.          *)

\* deleted and the indexes are int32 in the code; a command deletes at most
\* NumDocs documents and holds at most MaxDeletes statements, far below 2^31.

OrderedUnlessAbsent(c) == c.ordered = "true"

\* part_000:52-55: ordered, true unless the command document says otherwise.
Ordered(c) == IF c.ordered = "absent" THEN TRUE ELSE c.ordered = "true"

\* part_000:158-160: the loop is left on an error exactly if ordered.
BreakOnError(c) == Ordered(c)

\* part_000:60-99: what processQuery checks before it fetches, in the code's order.
StatementError(c, st) ==
    IF ~st.doc THEN "BadValue"
    ELSE IF st.strict THEN "NotImplemented"
    ELSE IF st.q = "nodoc" THEN "BadValue"
    ELSE IF ~st.whole THEN "BadValue"
    ELSE IF c.target # "ok" THEN "BadValue"
    ELSE "nil"

\* common.LimitDocuments: 0 is no limit, a negative limit counts as its absolute value.
LimitDocuments(docs, l) ==
    LET n == IF l < 0 THEN 0 - l ELSE l
    IN  IF n = 0 \/ Len(docs) <= n THEN docs ELSE SubSeq(docs, 1, n)

\* part_000:107-125: resDocs, the fetched documents the filter matches, cut to the limit.
ResDocs(docs, st) == LimitDocuments(SelectSeq(docs, LAMBDA id : Matches(id, st.q)), st.limit)

WriteErrorsAppendPosition(errs, err, i) == Append(errs, [index |-> Len(errs), code |-> err])

\* part_000:150: delErrors.Append(err, int32(i))
WriteErrorsAppend(errs, err, i) == Append(errs, [index |-> i, code |-> err])

ReplyDocAlwaysOk(errs, n) ==
    Set(IF Len(errs) > 0
        THEN <<[k |-> "ok", v |-> 1], [k |-> "writeErrors", v |-> errs]>>
        ELSE <<[k |-> "ok", v |-> 1]>>,
        "n", n)

\* part_000:164-175: the reply document.
ReplyDoc(errs, n) ==
    Set(IF Len(errs) > 0
        THEN <<[k |-> "writeErrors", v |-> errs]>>
        ELSE <<[k |-> "ok", v |-> 1]>>,
        "n", n)

BeginDeleteLetIgnored(h) ==
    /\ hpc[h] = "idle"
    /\ reply[h] = NoReply
    /\ \E c \in Commands :
        /\ cmd' = [cmd EXCEPT ![h] = c]
        /\ reply' = [reply EXCEPT ![h] = NoReply]
        /\ hpc' = [hpc EXCEPT ![h] = IF Len(c.deletes) > 0 THEN "fetch" ELSE "reply"]
    /\ idx' = [idx EXCEPT ![h] = 0]
    /\ fetched' = [fetched EXCEPT ![h] = <<>>]
    /\ delErrors' = [delErrors EXCEPT ![h] = <<>>]
    /\ deleted' = [deleted EXCEPT ![h] = 0]
    /\ attempted' = [attempted EXCEPT ![h] = <<>>]
    /\ requests' = [requests EXCEPT ![h] = <<>>]
    /\ UNCHANGED <<coll, catalogVars, cursorVars>>

\* part_000:34-55: the command document is read; let is not implemented.
\* Every call of MsgDelete starts from the same local state, and the initial
\* states hold every content of the collection: a handler runs one command.
BeginDelete(h) ==
    /\ hpc[h] = "idle"
    /\ reply[h] = NoReply
    /\ \E c \in Commands :
        /\ cmd' = [cmd EXCEPT ![h] = c]
        /\ IF c.let
           THEN /\ reply' = [reply EXCEPT ![h] = [err |-> "NotImplemented", doc |-> <<>>]]
                /\ UNCHANGED hpc
           ELSE /\ reply' = [reply EXCEPT ![h] = NoReply]
                /\ hpc' = [hpc EXCEPT ![h] = IF Len(c.deletes) > 0 THEN "fetch" ELSE "reply"]
    /\ idx' = [idx EXCEPT ![h] = 0]
    /\ fetched' = [fetched EXCEPT ![h] = <<>>]
    /\ delErrors' = [delErrors EXCEPT ![h] = <<>>]
    /\ deleted' = [deleted EXCEPT ![h] = 0]
    /\ attempted' = [attempted EXCEPT ![h] = <<>>]
    /\ requests' = [requests EXCEPT ![h] = <<>>]
    /\ UNCHANGED <<coll, catalogVars, cursorVars>>

\* The _ids the statements processed so far have taken out of the collection.
RECURSIVE Taken(_)
Taken(a) == IF a = <<>> THEN {} ELSE Head(a).removed \cup Taken(Tail(a))

\* Where the loop goes once processQuery(i) has returned err.
Loop(h, err, taken) ==
    /\ attempted' = [attempted EXCEPT ![h] =
                        Append(@, [i |-> idx[h], failed |-> err # "nil", removed |-> taken])]
    /\ fetched' = [fetched EXCEPT ![h] = <<>>]
    /\ delErrors' = [delErrors EXCEPT ![h] =
                        IF err # "nil" THEN WriteErrorsAppend(@, err, idx[h]) ELSE @]
    /\ IF err # "nil" /\ BreakOnError(cmd[h])
       THEN /\ hpc' = [hpc EXCEPT ![h] = "reply"]
            /\ UNCHANGED idx
       ELSE /\ idx' = [idx EXCEPT ![h] = @ + 1]
            /\ hpc' = [hpc EXCEPT ![h] =
                          IF idx[h] + 1 < Len(cmd[h].deletes) THEN "fetch" ELSE "reply"]

AfterStatementRollback(h, err, taken) ==
    /\ Loop(h, err, taken)
    /\ coll' = IF err # "nil" THEN coll \cup Taken(attempted[h]) ELSE coll \ taken

\* part_000:147-162: processQuery(i) has returned err, having taken the documents
\* "taken" out of the collection.  The statements are not run in a transaction:
\* an error leaves the collection as the statements before it left it.
AfterStatement(h, err, taken) ==
    /\ Loop(h, err, taken)
    /\ coll' = coll \ taken

\* part_000:58-105: processQuery(i) up to h.db.QueryDocuments.
Fetch(h) ==
    /\ hpc[h] = "fetch"
    /\ LET st == cmd[h].deletes[idx[h] + 1]
           e  == StatementError(cmd[h], st)
       IN  IF e # "nil"
           THEN AfterStatement(h, e, {})
           ELSE /\ fetched' = [fetched EXCEPT ![h] = Ascending(coll)]
                /\ hpc' = [hpc EXCEPT ![h] = "delete"]
                /\ UNCHANGED <<coll, idx, delErrors, attempted>>
    /\ UNCHANGED <<cmd, deleted, reply, requests, catalogVars, cursorVars>>

DeleteMatchingNoShortcut(h) ==
    /\ hpc[h] = "delete"
    /\ LET st == cmd[h].deletes[idx[h] + 1]
           resDocs == ResDocs(fetched[h], st)
       IN  IF FilterFails(st.q) /\ fetched[h] # <<>>
           THEN /\ AfterStatement(h, "BadValue", {})
                /\ UNCHANGED <<deleted, requests>>
           ELSE /\ deleted' = [deleted EXCEPT ![h] = @ + Len(resDocs)]
                /\ requests' = [requests EXCEPT ![h] = Append(@, idx[h])]
                /\ AfterStatement(h, "nil", coll \cap Range(resDocs))
    /\ UNCHANGED <<cmd, reply, catalogVars, cursorVars>>

\* part_000:107-139 and h.delete, 187-213: the matching documents are deleted by
\* _id in one request; deleted grows by the number of _ids sent.  No request is
\* sent if no document is left to delete (127-130).
DeleteMatching(h) ==
    /\ hpc[h] = "delete"
    /\ LET st == cmd[h].deletes[idx[h] + 1]
           resDocs == ResDocs(fetched[h], st)
       IN  IF FilterFails(st.q) /\ fetched[h] # <<>>
           THEN /\ AfterStatement(h, "BadValue", {})
                /\ UNCHANGED <<deleted, requests>>
           ELSE IF resDocs = <<>>
           THEN /\ AfterStatement(h, "nil", {})
                /\ UNCHANGED <<deleted, requests>>
           ELSE /\ deleted' = [deleted EXCEPT ![h] = @ + Len(resDocs)]
                /\ requests' = [requests EXCEPT ![h] = Append(@, idx[h])]
                /\ AfterStatement(h, "nil", coll \cap Range(resDocs))
    /\ UNCHANGED <<cmd, reply, catalogVars, cursorVars>>

\* part_000:164-185: the reply.
Reply(h) ==
    /\ hpc[h] = "reply"
    /\ reply' = [reply EXCEPT ![h] = [err |-> "nil", doc |-> ReplyDoc(delErrors[h], deleted[h])]]
    /\ hpc' = [hpc EXCEPT ![h] = "idle"]
    /\ UNCHANGED <<coll, cmd, idx, fetched, delErrors, deleted, attempted, requests, catalogVars, cursorVars>>

\* The collection holds any of the documents; no command is running.
InitDelete == InitCatalog /\ HandlersIdle /\ coll \in SUBSET Ids /\ CursorIdle

\* One connection runs a delete command.
NextDelete ==
    \E h \in {"h1"} :
        \/ BeginDelete(h)
        \/ Fetch(h)
        \/ DeleteMatching(h)
        \/ Reply(h)

SpecDelete == InitDelete /\ [][NextDelete]_vars

\* The commands of the connections that run side by side: one or two well-formed
\* statements, ordered left out.
ConcurrentStatements == {Stmt("all", 0), Stmt("id1", 1), Stmt("bad", 0)}

ConcurrentCommands ==
    {c \in Commands :
        /\ ~c.let /\ c.ordered = "absent" /\ c.target = "ok"
        /\ Len(c.deletes) \in 1..2
        /\ \A i \in 1..Len(c.deletes) : c.deletes[i] \in ConcurrentStatements}

\* Two connections each run a delete command on the same collection; their
\* requests to the backend interleave.
NextDeleteConcurrent ==
    \E h \in Handlers :
        \/ BeginDelete(h) /\ cmd'[h] \in ConcurrentCommands
        \/ Fetch(h)
        \/ DeleteMatching(h)
        \/ Reply(h)

SpecDeleteConcurrent == InitDelete /\ [][NextDeleteConcurrent]_vars

-----------------------------------------------------------------------------
(* The cursor of QueryDocuments: a producer reads the rows of the table in  *)
(* batches and sends them over a bounded channel; the consumer calls Next() *)
(* until it returns false.  Its use is TestQueryDocuments; the iterator is  *)
(* modelled from the specification.                                         *)

\* Documents a batch holds at most: three documents come in batches of 2 and 1.
QueryIteratorSliceCapacity == 2

\* Batches the channel holds at most.
QueryIteratorBufSize == 4

\* Rows beyond QueryIteratorBufSize * QueryIteratorSliceCapacity.
ExtraRows == 1

MaxRows == QueryIteratorBufSize * QueryIteratorSliceCapacity + ExtraRows

\* The documents are named by numbers; the table returns them in either order.
RowOrders(n) == {[i \in 1..n |-> i], [i \in 1..n |-> n + 1 - i]}

Min(a, b) == IF a < b THEN a ELSE b

RECURSIVE Concat(_)
Concat(bs) == IF bs = <<>> THEN <<>> ELSE Head(bs) \o Concat(Tail(bs))

\* The producer ends: it closes the channel.
ProducerDone(err) ==
    /\ chanClosed' = TRUE
    /\ ppc' = "done"
    /\ slice' = <<>>
    /\ itErr' = err

QueryDocumentsUnchecked ==
    /\ ipc = "new" /\ tx = "open"
    /\ ipc' = "drain"
    /\ IF tableExists
       THEN /\ ppc' = "pull" /\ qErr' = "nil"
            /\ UNCHANGED <<tx, chanClosed, slice, itErr>>
       ELSE /\ ProducerDone("nil") /\ qErr' = "TableNotExist" /\ tx' = "aborted"
    /\ UNCHANGED <<rows, tableExists, ctxDone, txErr, pulled, fetchedChan,
                   batch, batches, iter, cancelIter, catalogVars, deleteVars>>

\* QueryDocuments(ctx, tx, sp): on a table that does not exist no query is sent,
\* the channel is closed at once and no error is returned; else the producer starts.
QueryDocuments ==
    /\ ipc = "new" /\ tx = "open"
    /\ ipc' = "drain"
    /\ qErr' = "nil"
    /\ IF tableExists
       THEN ppc' = "pull" /\ UNCHANGED <<chanClosed, slice, itErr>>
       ELSE ProducerDone("nil")
    /\ UNCHANGED <<rows, tableExists, ctxDone, tx, txErr, pulled, fetchedChan,
                   batch, batches, iter, cancelIter, catalogVars, deleteVars>>

ProducerPullOffByOne ==
    /\ ppc = "pull"
    /\ IF ctxDone
       THEN ProducerDone("Cancelled") /\ UNCHANGED pulled
       ELSE LET k == Min(QueryIteratorSliceCapacity + 1, Len(rows) - pulled) IN
            IF k = 0
            THEN ProducerDone("nil") /\ UNCHANGED pulled
            ELSE /\ slice' = SubSeq(rows, pulled + 1, pulled + k)
                 /\ pulled' = pulled + k
                 /\ ppc' = "send"
                 /\ UNCHANGED <<chanClosed, itErr>>
    /\ UNCHANGED <<rows, tableExists, ctxDone, tx, txErr, qErr, fetchedChan,
                   ipc, batch, batches, iter, cancelIter, catalogVars, deleteVars>>

\* The producer fills a batch: up to QueryIteratorSliceCapacity rows, in row order.
\* No row is left: it closes the channel.  The context is cancelled: it stops.
ProducerPull ==
    /\ ppc = "pull"
    /\ IF ctxDone
       THEN ProducerDone("Cancelled") /\ UNCHANGED pulled
       ELSE LET k == Min(QueryIteratorSliceCapacity, Len(rows) - pulled) IN
            IF k = 0
            THEN ProducerDone("nil") /\ UNCHANGED pulled
            ELSE /\ slice' = SubSeq(rows, pulled + 1, pulled + k)
                 /\ pulled' = pulled + k
                 /\ ppc' = "send"
                 /\ UNCHANGED <<chanClosed, itErr>>
    /\ UNCHANGED <<rows, tableExists, ctxDone, tx, txErr, qErr, fetchedChan,
                   ipc, batch, batches, iter, cancelIter, catalogVars, deleteVars>>

ProducerSendIgnoringCancel ==
    /\ ppc = "send"
    /\ Len(fetchedChan) < QueryIteratorBufSize
    /\ fetchedChan' = Append(fetchedChan, slice)
    /\ slice' = <<>>
    /\ ppc' = "pull"
    /\ UNCHANGED <<chanClosed, itErr>>
    /\ UNCHANGED <<rows, tableExists, ctxDone, tx, txErr, qErr, pulled,
                   ipc, batch, batches, iter, cancelIter, catalogVars, deleteVars>>

\* The producer sends its batch: it waits while the channel is full; once the
\* context is cancelled it enqueues nothing more and closes the channel.
ProducerSend ==
    /\ ppc = "send"
    /\ ctxDone \/ Len(fetchedChan) < QueryIteratorBufSize
    /\ IF ctxDone
       THEN ProducerDone("Cancelled") /\ UNCHANGED fetchedChan
       ELSE /\ fetchedChan' = Append(fetchedChan, slice)
            /\ slice' = <<>>
            /\ ppc' = "pull"
            /\ UNCHANGED <<chanClosed, itErr>>
    /\ UNCHANGED <<rows, tableExists, ctxDone, tx, txErr, qErr, pulled,
                   ipc, batch, batches, iter, cancelIter, catalogVars, deleteVars>>

IteratorNextClosedFirst ==
    /\ ipc = "drain"
    /\ fetchedChan # <<>> \/ chanClosed
    /\ IF ~chanClosed
       THEN /\ batch' = Head(fetchedChan)
            /\ fetchedChan' = Tail(fetchedChan)
            /\ batches' = Append(batches, Head(fetchedChan))
            /\ iter' = iter + 1
            /\ UNCHANGED ipc
       ELSE /\ batch' = <<>>
            /\ ipc' = "end"
            /\ UNCHANGED <<fetchedChan, batches, iter>>
    /\ UNCHANGED <<rows, tableExists, ctxDone, tx, txErr, qErr, ppc, pulled, slice,
                   chanClosed, itErr, cancelIter, catalogVars, deleteVars>>

\* it.Next() and it.DocumentsFiltered(nil), docker-compose.yml:183-188: the next
\* batch of the channel becomes the current one; false, and no documents, once
\* the channel is closed and empty.  Next waits while it is open and empty.
IteratorNext ==
    /\ ipc = "drain"
    /\ fetchedChan # <<>> \/ chanClosed
    /\ IF fetchedChan # <<>>
       THEN /\ batch' = Head(fetchedChan)
            /\ fetchedChan' = Tail(fetchedChan)
            /\ batches' = Append(batches, Head(fetchedChan))
            /\ iter' = iter + 1
            /\ UNCHANGED ipc
       ELSE /\ batch' = <<>>
            /\ ipc' = "end"
            /\ UNCHANGED <<fetchedChan, batches, iter>>
    /\ UNCHANGED <<rows, tableExists, ctxDone, tx, txErr, qErr, ppc, pulled, slice,
                   chanClosed, itErr, cancelIter, catalogVars, deleteVars>>

\* cancel(), docker-compose.yml:212: the context is cancelled, before the first
\* Next() or between two of them.
Cancel ==
    /\ ipc = "drain" /\ ~ctxDone
    /\ ctxDone' = TRUE
    /\ cancelIter' = iter
    /\ UNCHANGED <<rows, tableExists, tx, txErr, qErr, ppc, pulled, slice, fetchedChan,
                   chanClosed, itErr, ipc, batch, batches, iter, catalogVars, deleteVars>>

\* What ends the transaction returns: Cancelled under a cancelled context.
TxResult == IF ctxDone THEN "Cancelled" ELSE IF tx = "aborted" THEN "TxAborted" ELSE "nil"

\* tx.Commit(ctx), docker-compose.yml:192, 239.
Commit ==
    /\ ipc = "end" /\ tx \in {"open", "aborted"}
    /\ txErr' = TxResult
    /\ tx' = IF TxResult = "nil" THEN "committed" ELSE "rolledback"
    /\ ipc' = "txdone"
    /\ UNCHANGED <<rows, tableExists, ctxDone, qErr, ppc, pulled, slice, fetchedChan,
                   chanClosed, itErr, batch, batches, iter, cancelIter, catalogVars, deleteVars>>

\* tx.Rollback(ctx), docker-compose.yml:222.
Rollback ==
    /\ ipc = "end" /\ tx \in {"open", "aborted"}
    /\ txErr' = IF ctxDone THEN "Cancelled" ELSE "nil"
    /\ tx' = "rolledback"
    /\ ipc' = "txdone"
    /\ UNCHANGED <<rows, tableExists, ctxDone, qErr, ppc, pulled, slice, fetchedChan,
                   chanClosed, itErr, batch, batches, iter, cancelIter, catalogVars, deleteVars>>

\* defer it.Close(), docker-compose.yml:180: the producer and the backend cursor
\* are released.
Close ==
    /\ ipc = "txdone"
    /\ ipc' = "closed"
    /\ ppc' = "done"
    /\ chanClosed' = TRUE
    /\ slice' = <<>>
    /\ UNCHANGED <<rows, tableExists, ctxDone, tx, txErr, qErr, pulled, fetchedChan,
                   itErr, batch, batches, iter, cancelIter, catalogVars, deleteVars>>

\* docker-compose.yml:170-175, 227: a transaction is open; the table holds up to
\* MaxRows documents, or does not exist.
InitCursor ==
    /\ InitCatalog /\ HandlersIdle /\ coll = {}
    /\ NoCursor
    /\ tableExists \in BOOLEAN
    /\ \E n \in 0..MaxRows : rows \in RowOrders(n)
    /\ ~tableExists => rows = <<>>

Producer == ProducerPull \/ ProducerSend

NextCursor ==
    \/ QueryDocuments
    \/ ProducerPull
    \/ ProducerSend
    \/ IteratorNext
    \/ Cancel
    \/ Commit
    \/ Rollback
    \/ Close

SpecCursor == InitCursor /\ [][NextCursor]_vars

\* The producer runs in its own goroutine and the consumer's loop calls Next()
\* until it returns false: neither stops while it can take a step.
SpecCursorLive ==
    InitCursor /\ [][NextCursor]_vars /\ WF_vars(Producer) /\ WF_vars(IteratorNext)

-----------------------------------------------------------------------------
(* The catalog: claims.                                                    *)

Idle(p) == pc[p] = "idle"

Creators == {"CreateCollection", "CreateCollectionIfNotExist"}

\* C1: two CreateCollectionIfNotExist calls for the same collection, which neither
\* found in the database when it began, and which overlap in time: once both have
\* returned, neither has failed, exactly one has returned created = true, and the
\* collection's table exists.
C1_OneCreator ==
    \A p \in Conns : \A q \in Conns \ {p} :
        ( /\ Idle(p) /\ Idle(q) /\ overlap
          /\ op[p] = "CreateCollectionIfNotExist" /\ op[q] = "CreateCollectionIfNotExist"
          /\ arg[p] = arg[q]
          /\ pre[p].settings = <<>> /\ pre[p].tables = {}
          /\ pre[q].settings = <<>> /\ pre[q].tables = {} )
        => /\ ret[p].err = "nil" /\ ret[q].err = "nil"
           /\ ret[p].created # ret[q].created
           /\ Table(arg[p]) \in tables

\* C2: when no call is running, the names Collections returns are exactly the
\* collections whose table exists: every settings entry names a table of the
\* schema, and every table of the schema is named by a settings entry.
C2_CatalogConsistent ==
    (\A p \in Conns : Idle(p)) =>
        /\ \A i \in 1..Len(settings) : settings[i].v \in tables
        /\ \A t \in tables : \E i \in 1..Len(settings) : settings[i].v = t
        /\ \A i \in 1..Len(settings) : settings[i].v = Table(settings[i].k)

\* C3: a Collections call that overlaps a CreateCollection of collection c has
\* read c's settings entry exactly if c's table existed at that moment.
C3_ReaderSeesBothOrNeither ==
    \A p \in Conns : \A q \in Conns \ {p} :
        ( /\ Idle(p) /\ op[p] = "Collections" /\ ret[p].err = "nil"
          /\ overlap /\ op[q] \in Creators )
        => (Contains(ret[p].names, arg[q]) <=> Table(arg[q]) \in ret[p].seen)

\* C8: without concurrent callers, CreateCollectionIfNotExist with a valid name
\* never fails, returns true exactly if the collection did not exist when it was
\* called, leaves schema, settings entry and table in place, creates the schema
\* if it was missing, and changes nothing if the collection existed.
C8_CreateIfNotExistSequential ==
    LET p == "c1"
        existed == pre[p].schema /\ Contains(CollectionNames(pre[p].settings), arg[p])
    IN  ( /\ Idle(p) /\ op[p] = "CreateCollectionIfNotExist"
          /\ validateCollectionNameRe(arg[p]) /\ ~HasPrefix(arg[p], reservedPrefix) )
        => /\ ret[p].err = "nil"
           /\ ret[p].created = ~existed
           /\ schema
           /\ Contains(CollectionNames(settings), arg[p])
           /\ Table(arg[p]) \in tables
           /\ existed => Database = pre[p]

C8_Witness ==
    /\ Idle("c1") /\ op["c1"] = "CreateCollectionIfNotExist"
    /\ ret["c1"].created /\ ~pre["c1"].schema /\ schema
    /\ arg["c1"] = Rep("a", MaxTail + 1)

\* C9: CreateCollection returns ErrInvalidTableName exactly if the name does not
\* match ^[a-zA-Z_][a-zA-Z0-9_]{0,119}$ or begins with the reserved prefix, and
\* then schema, settings and tables are as they were.
C9_InvalidName ==
    LET p == "c1"
        invalid == ~validateCollectionNameRe(arg[p]) \/ HasPrefix(arg[p], reservedPrefix)
    IN  (Idle(p) /\ op[p] = "CreateCollection")
        => /\ ret[p].err = "ErrInvalidTableName" <=> invalid
           /\ invalid => Database = pre[p]

C9_Witness ==
    /\ Idle("c1") /\ op["c1"] = "CreateCollection"
    /\ ret["c1"].err = "ErrInvalidTableName"
    /\ arg["c1"] = reservedPrefix \o <<"u">>
    /\ schema /\ tables # {}

\* C10: without concurrent callers, CreateCollection with a valid name on an
\* existing schema that holds the collection's table returns ErrAlreadyExist and
\* leaves settings and tables as they were.
C10_AlreadyExist ==
    LET p == "c1" IN
        ( /\ Idle(p) /\ op[p] = "CreateCollection"
          /\ validateCollectionNameRe(arg[p]) /\ ~HasPrefix(arg[p], reservedPrefix)
          /\ pre[p].schema /\ Table(arg[p]) \in pre[p].tables )
        => /\ ret[p].err = "ErrAlreadyExist"
           /\ Database = pre[p]

C10_Witness ==
    /\ Idle("c1") /\ op["c1"] = "CreateCollection"
    /\ ret["c1"].err = "ErrAlreadyExist"
    /\ Table(arg["c1"]) \in pre["c1"].tables
    /\ Len(settings) >= 2

\* C11: DropCollection of a collection that existed when the call began: in every
\* state during the call and after it, the collection's settings entry is not present
\* while its table is gone; the entry is removed first, then the table, and when
\* the call has returned both are gone and nothing else has changed.
C11_DropEntryBeforeTable ==
    LET p == "c1"
        c == arg[p]
    IN  ( /\ op[p] = "DropCollection"
          /\ pre[p].schema /\ Has(pre[p].settings, c) /\ Table(c) \in pre[p].tables )
        => /\ ~(Has(settings, c) /\ Table(c) \notin tables)
           /\ Idle(p) => /\ ret[p].err = "nil"
                          /\ settings = Remove(pre[p].settings, c)
                          /\ tables = pre[p].tables \ {Table(c)}
                          /\ schema

C11_Witness ==
    /\ op["c1"] = "DropCollection" /\ pc["c1"] = "dc_table"
    /\ Has(pre["c1"].settings, arg["c1"])
    /\ ~Has(settings, arg["c1"]) /\ Table(arg["c1"]) \in tables
    /\ Len(settings) >= 1

StrictlyAscending(names) ==
    \A i \in 1..(Len(names) - 1) : StrLess(names[i], names[i + 1])

\* C13: Collections returns ErrSchemaNotExist if the schema does not exist;
\* otherwise it returns the keys of the settings document, each once, in strictly
\* ascending order of code points, and schema, settings and tables are as they were.
C13_CollectionsSorted ==
    LET p == "c1" IN
        (Idle(p) /\ op[p] = "Collections")
        => /\ Database = pre[p]
           /\ IF ~pre[p].schema
              THEN ret[p].err = "ErrSchemaNotExist" /\ ret[p].names = <<>>
              ELSE /\ ret[p].err = "nil"
                   /\ Len(ret[p].names) = Len(settings)
                   /\ Range(ret[p].names) = Range(Keys(settings))
                   /\ StrictlyAscending(ret[p].names)
                   /\ \A i \in 1..(Len(settings) - 1) :
                          \A j \in (i + 1)..Len(settings) : settings[i].k # settings[j].k

C13_Witness ==
    /\ Idle("c1") /\ op["c1"] = "Collections" /\ ret["c1"].err = "nil"
    /\ Len(ret["c1"].names) = 3
    /\ ret["c1"].names # Keys(settings)
    /\ ret["c1"].names[1] = <<"B", "1">>

\* C20: in the step in which a CreateCollection call returns nil, the settings
\* document holds an entry for the collection and the collection's table exists,
\* whatever the database held when the call began.
C20_CreatedOnReturn ==
    [][\A p \in Conns :
          ( /\ op[p] = "CreateCollection"
            /\ pc[p] # "idle" /\ pc'[p] = "idle"
            /\ ret'[p].err = "nil" )
          => (Has(settings', arg[p]) /\ Table(arg[p]) \in tables')]_vars

-----------------------------------------------------------------------------
(* The cursor: claims.                                                     *)

\* The consumer's loop is over: Next() has returned false.
Drained == ipc \in {"end", "txdone", "closed"}

\* The documents the consumer has collected, in the order it received them.
Yielded == Concat(batches)

\* C14: the context is not cancelled and the table exists: once Next() has
\* returned false, the batches collected, one after another, are the rows of the
\* table in the backend's order, each document once, none missing, for every
\* number of rows from 0 to beyond buffer size times slice capacity.
C14_DrainComplete ==
    (Drained /\ tableExists /\ ~ctxDone)
    => /\ Yielded = rows
       /\ Len(Yielded) = Len(rows)
       /\ \A i \in 1..Len(Yielded) : \A j \in 1..Len(Yielded) :
              Yielded[i] = Yielded[j] => i = j
       /\ itErr = "nil"

C14_Witness ==
    /\ Drained /\ tableExists /\ ~ctxDone
    /\ Len(rows) = MaxRows /\ rows[1] = MaxRows
    /\ Yielded = rows
    /\ Len(batches) > QueryIteratorBufSize

\* The context was cancelled before the first Next() of a cursor over more than
\* buffer size times slice capacity documents.
CancelledBeforeFirstNext ==
    /\ cancelIter = 0
    /\ tableExists
    /\ Len(rows) > QueryIteratorBufSize * QueryIteratorSliceCapacity

\* C15: the context is cancelled before the first Next() of a cursor over more
\* than buffer size times slice capacity documents: the consumer's loop ends
\* (Next() returns false at last, producer and consumer do not wait for each
\* other for ever), fewer documents than the table holds have been yielded, and
\* Rollback then returns Cancelled.
C15_CancelledBeforeFirstNext ==
    /\ [](CancelledBeforeFirstNext => Len(Yielded) < Len(rows))
    /\ []((CancelledBeforeFirstNext /\ tx = "rolledback") => txErr = "Cancelled")
    /\ (CancelledBeforeFirstNext ~> Drained)

C15_Witness ==
    /\ CancelledBeforeFirstNext
    /\ ipc = "txdone" /\ tx = "rolledback" /\ txErr = "Cancelled"
    /\ Len(batches) = QueryIteratorBufSize
    /\ Len(rows) = MaxRows

\* C16: a cursor on a table that does not exist: QueryDocuments returns no
\* error, the first Next() does not wait and returns false, no batch is ever
\* handed over, no error is latched, and under a context not cancelled the
\* transaction commits.
C16_NonExistingTable ==
    (~tableExists /\ ipc # "new")
    => /\ qErr = "nil"
       /\ iter = 0 /\ batches = <<>> /\ batch = <<>>
       /\ itErr = "nil"
       /\ ipc = "drain" => (chanClosed /\ fetchedChan = <<>>)
       /\ (ipc \in {"txdone", "closed"} /\ ~ctxDone /\ tx # "rolledback")
              => (tx = "committed" /\ txErr = "nil")
       /\ tx # "aborted"

C16_Witness ==
    /\ ~tableExists /\ ipc = "closed"
    /\ tx = "committed" /\ txErr = "nil" /\ iter = 0

\* Ceiling of n / d.
CeilDiv(n, d) == (n + d - 1) \div d

\* C17: the channel never holds more than buffer size batches and no batch more
\* than slice capacity documents; every batch handed to the consumer is not
\* empty, every one but the last is full, and a drain that is not cancelled takes
\* ceil(N / slice capacity) successful Next() calls.
C17_Bounded ==
    /\ Len(fetchedChan) <= QueryIteratorBufSize
    /\ \A i \in 1..Len(fetchedChan) :
           Len(fetchedChan[i]) \in 1..QueryIteratorSliceCapacity
    /\ Len(slice) <= QueryIteratorSliceCapacity
    /\ Len(batch) <= QueryIteratorSliceCapacity
    /\ \A i \in 1..Len(batches) : Len(batches[i]) \in 1..QueryIteratorSliceCapacity
    /\ \A i \in 1..(Len(batches) - 1) : Len(batches[i]) = QueryIteratorSliceCapacity
    /\ iter = Len(batches)
    /\ (Drained /\ tableExists /\ ~ctxDone)
           => iter = CeilDiv(Len(rows), QueryIteratorSliceCapacity)

C17_Witness ==
    /\ Len(fetchedChan) = QueryIteratorBufSize
    /\ ppc = "send" /\ Len(slice) = 1
    /\ Len(rows) = MaxRows /\ ~ctxDone /\ iter = 0

-----------------------------------------------------------------------------
(* The delete command: claims.                                             *)

\* MsgDelete has returned a reply document.
Replied(h) == hpc[h] = "idle" /\ reply[h].err = "nil"

Field(doc, k) == doc[CHOOSE i \in 1..Len(doc) : doc[i].k = k].v

\* The writeErrors array of the reply, empty if the reply has none.
WriteErrors(h) ==
    IF Has(reply[h].doc, "writeErrors") THEN Field(reply[h].doc, "writeErrors") ELSE <<>>

Indexes(a) == [j \in 1..Len(a) |-> a[j].i]

FailedCalls(h) == SelectSeq(attempted[h], LAMBDA a : a.failed)

RECURSIVE SumRemoved(_)
SumRemoved(a) ==
    IF a = <<>> THEN 0
    ELSE (IF Head(a).failed THEN 0 ELSE Cardinality(Head(a).removed)) + SumRemoved(Tail(a))

\* C4: ordered (true, or absent), and a statement has failed: the statements
\* attempted are those up to the first failing one, i, in order, none after it, and
\* writeErrors holds one entry, of index i.
C4_OrderedStopsAtFirstError ==
    \A h \in Handlers :
        (Replied(h) /\ cmd[h].ordered \in {"absent", "true"} /\ FailedCalls(h) # <<>>)
        => LET i == FailedCalls(h)[1].i IN
           /\ \A j \in 1..Len(attempted[h]) : attempted[h][j].i <= i
           /\ Indexes(attempted[h]) = [j \in 1..(i + 1) |-> j - 1]
           /\ Len(WriteErrors(h)) = 1
           /\ WriteErrors(h)[1].index = i

C4_Witness ==
    /\ Replied("h1") /\ cmd["h1"].ordered = "absent" /\ Len(cmd["h1"].deletes) = 3
    /\ Len(attempted["h1"]) = 2
    /\ ~attempted["h1"][1].failed /\ attempted["h1"][1].removed # {}
    /\ attempted["h1"][2].failed
    /\ Len(WriteErrors("h1")) = 1 /\ WriteErrors("h1")[1].index = 1

\* C5: ordered = false: every statement is attempted once, in index order, and
\* writeErrors holds one entry for each statement that failed, in order, with the
\* statement's index in the deletes array.
C5_UnorderedAttemptsAll ==
    \A h \in Handlers :
        (Replied(h) /\ cmd[h].ordered = "false")
        => /\ Indexes(attempted[h]) = [j \in 1..Len(cmd[h].deletes) |-> j - 1]
           /\ [j \in 1..Len(WriteErrors(h)) |-> WriteErrors(h)[j].index]
                  = Indexes(FailedCalls(h))

C5_Witness ==
    /\ Replied("h1") /\ cmd["h1"].ordered = "false" /\ Len(cmd["h1"].deletes) = 3
    /\ Len(attempted["h1"]) = 3
    /\ attempted["h1"][1].failed /\ ~attempted["h1"][2].failed /\ attempted["h1"][3].failed
    /\ attempted["h1"][2].removed # {}
    /\ Len(WriteErrors("h1")) = 2 /\ WriteErrors("h1")[2].index = 2

C7_NoRollback ==
    \A h \in Handlers :
        Replied(h)
        => /\ \A j \in 1..Len(attempted[h]) :
                  ~attempted[h][j].failed => attempted[h][j].removed \cap coll = {}
           /\ Field(reply[h].doc, "n") = SumRemoved(attempted[h])

C7_Witness ==
    /\ Replied("h1") /\ Len(attempted["h1"]) = 3
    /\ ~attempted["h1"][1].failed /\ attempted["h1"][1].removed # {}
    /\ attempted["h1"][2].failed
    /\ ~attempted["h1"][3].failed /\ attempted["h1"][3].removed # {}
    /\ Field(reply["h1"].doc, "n") = 2 /\ coll = {}

\* C18: a command document that holds let: MsgDelete returns the NotImplemented
\* error and no reply document, and no statement is processed: nothing is
\* fetched, no delete request is sent, nothing is taken out of the collection.
C18_LetUnimplemented ==
    \A h \in Handlers :
        (cmd[h].let /\ cmd[h] # NoCmd)
        => /\ reply[h] = [err |-> "NotImplemented", doc |-> <<>>]
           /\ ~Has(reply[h].doc, "n") /\ ~Has(reply[h].doc, "ok")
           /\ ~Has(reply[h].doc, "writeErrors")
           /\ hpc[h] = "idle"
           /\ attempted[h] = <<>> /\ fetched[h] = <<>> /\ requests[h] = <<>>
           /\ deleted[h] = 0 /\ delErrors[h] = <<>>

C18_Witness ==
    /\ cmd["h1"].let /\ cmd["h1"].target = "ok"
    /\ cmd["h1"].deletes = <<Stmt("all", 0)>>
    /\ reply["h1"].err = "NotImplemented"
    /\ coll = Ids

\* The collection as processQuery number j of the command found it: what is left
\* and what that call and the later ones have taken out.
CollAt(h, j) == coll \cup Taken(SubSeq(attempted[h], j, Len(attempted[h])))

\* The statement is well-formed and its filter matches no document of c.
MatchesNone(c, st, docs) ==
    /\ StatementError(c, st) = "nil"
    /\ ~(FilterFails(st.q) /\ docs # {})
    /\ \A id \in docs : ~Matches(id, st.q)

\* C19: a statement whose filter matches no document of the collection has not
\* failed: no writeErrors entry bears its index, it has taken nothing out and
\* added nothing to n, no delete request was sent for it, and the statement after
\* it, if there is one, has been attempted, also when ordered.
C19_NoMatchIsNoError ==
    \A h \in Handlers :
        Replied(h)
        => \A j \in 1..Len(attempted[h]) :
               LET a  == attempted[h][j]
                   st == cmd[h].deletes[a.i + 1]
               IN  MatchesNone(cmd[h], st, CollAt(h, j))
                   => /\ ~a.failed
                      /\ a.removed = {}
                      /\ \A k \in 1..Len(WriteErrors(h)) : WriteErrors(h)[k].index # a.i
                      /\ \A k \in 1..Len(requests[h]) : requests[h][k] # a.i
                      /\ Len(requests[h]) <= Len(attempted[h]) - 1
                      /\ a.i + 1 < Len(cmd[h].deletes)
                             => (j < Len(attempted[h]) /\ attempted[h][j + 1].i = a.i + 1)
                      /\ Field(reply[h].doc, "n")
                             = SumRemoved(SubSeq(attempted[h], 1, j - 1))
                               + SumRemoved(SubSeq(attempted[h], j + 1, Len(attempted[h])))

C19_Witness ==
    /\ Replied("h1") /\ cmd["h1"].ordered = "true"
    /\ cmd["h1"].deletes = <<Stmt("id1", 1), Stmt("none", 1), Stmt("all", 0)>>
    /\ Len(attempted["h1"]) = 3
    /\ attempted["h1"][1].removed = {1} /\ attempted["h1"][3].removed # {}
    /\ requests["h1"] = <<0, 2>>
    /\ reply["h1"].doc = <<[k |-> "ok", v |-> 1], [k |-> "n", v |-> NumDocs]>>

\* The n of the reply of h.
ReplyN(h) == Field(reply[h].doc, "n")

\* The documents the command of h has taken out of the collection.
Removed(h) == Taken(attempted[h])

\* C21: the n a delete command reports is the number of documents this command
\* has taken out of the collection, and the n of two commands that ran side by
\* side on one collection add up to no more than the documents taken out.
C21_NCountsRemoved ==
    /\ \A h \in Handlers : Replied(h) => ReplyN(h) = Cardinality(Removed(h))
    /\ (\A h \in Handlers : Replied(h))
          => ReplyN("h1") + ReplyN("h2") <= Cardinality(Removed("h1") \cup Removed("h2"))

====
